---- MODULE Spec2Model ----
(***************************************************************************)
(* A model of the near-Earth-object database: the two record classes of    *)
(* models.py, the loaders of extract.py and the NEODatabase of database.py *)
(* (its constructor, the two lookups and the query generator).             *)
(*                                                                         *)
(* Python values are modelled with one shape per kind so that any two of   *)
(* them can be compared:                                                   *)
(*   a string          a sequence of one-character strings                 *)
(*   an optional str   [none |-> BOOLEAN, s |-> string]                    *)
(*   a float / a token [parses |-> BOOLEAN, v |-> Nat]; NaN parses = FALSE *)
(*   a datetime        <<year, month, day, hour, minute, second>>          *)
(*   a time argument   [isdt |-> BOOLEAN, s |-> string, dt |-> datetime]   *)
(***************************************************************************)
EXTENDS Integers, Sequences, FiniteSets, TLC

\* ------------------------------------------------------------------ bounds

\* The largest number of NearEarthObjects handed to the constructor.
MaxNeos == 2

\* The largest number of CloseApproaches handed to the constructor.
MaxApps == 2

\* The largest number of generators returned by query that are alive at once.
MaxGens == 2

\* ----------------------------------------------------------------- strings

UpperChars == <<"A", "B", "E", "J", "F", "N">>

LowerChars == <<"a", "b", "e", "j", "f", "n">>

\* str.lower() on one character.
LowerChar(c) ==
    IF \E i \in DOMAIN UpperChars : UpperChars[i] = c
    THEN LowerChars[CHOOSE i \in DOMAIN UpperChars : UpperChars[i] = c]
    ELSE c

\* str.lower()
Lower(s) == [i \in DOMAIN s |-> LowerChar(s[i])]

\* s[:n]
Slice(s, n) == IF Len(s) <= n THEN s ELSE SubSeq(s, 1, n)

PyNone == [none |-> TRUE, s |-> <<>>]

PyStr(s) == [none |-> FALSE, s |-> s]

NoneText == <<"N", "o", "n", "e">>

\* str(x) for an optional string: str(None) is the text 'None'.
Str(x) == IF x.none THEN NoneText ELSE x.s

NaN == [parses |-> FALSE, v |-> 0]

\* float(x) inside try/except ValueError: a token that does not parse, and
\* a NaN, give NaN; a float is unchanged.
Float(x) == IF x.parses THEN [parses |-> TRUE, v |-> x.v] ELSE NaN

\* ------------------------------------------------------- helpers (datetime)

DigitChars == <<"0", "1", "2", "3", "4", "5", "6", "7", "8", "9">>

IsDigit(c) == \E i \in DOMAIN DigitChars : DigitChars[i] = c

DigitVal(c) == (CHOOSE i \in DOMAIN DigitChars : DigitChars[i] = c) - 1

MonthNames ==
    << <<"J", "a", "n">>, <<"F", "e", "b">>, <<"M", "a", "r">>,
       <<"A", "p", "r">>, <<"M", "a", "y">>, <<"J", "u", "n">>,
       <<"J", "u", "l">>, <<"A", "u", "g">>, <<"S", "e", "p">>,
       <<"O", "c", "t">>, <<"N", "o", "v">>, <<"D", "e", "c">> >>

TwoDigits(n) == <<DigitChars[(n \div 10) + 1], DigitChars[(n % 10) + 1]>>

FourDigits(n) == TwoDigits(n \div 100) \o TwoDigits(n % 100)

NoDate == <<0, 0, 0, 0, 0, 0>>

\* The text matches YYYY-Mon-DD HH:MM, all of it and nothing more.
MatchesCdFormat(s) ==
    /\ Len(s) = 17
    /\ \A i \in {1, 2, 3, 4, 10, 11, 13, 14, 16, 17} : IsDigit(s[i])
    /\ s[5] = "-" /\ s[9] = "-" /\ s[12] = " " /\ s[15] = ":"
    /\ \E m \in DOMAIN MonthNames : MonthNames[m] = SubSeq(s, 6, 8)
    /\ 10 * DigitVal(s[10]) + DigitVal(s[11]) \in 1..31
    /\ 10 * DigitVal(s[13]) + DigitVal(s[14]) \in 0..23
    /\ 10 * DigitVal(s[16]) + DigitVal(s[17]) \in 0..59

\* helpers.cd_to_datetime: parse a calendar date of the fixed truncated
\* format; a text of any other format is a ValueError.
cd_to_datetime(s) ==
    IF MatchesCdFormat(s)
    THEN [err |-> FALSE,
          dt  |-> << 1000 * DigitVal(s[1]) + 100 * DigitVal(s[2])
                       + 10 * DigitVal(s[3]) + DigitVal(s[4]),
                     CHOOSE m \in DOMAIN MonthNames : MonthNames[m] = SubSeq(s, 6, 8),
                     10 * DigitVal(s[10]) + DigitVal(s[11]),
                     10 * DigitVal(s[13]) + DigitVal(s[14]),
                     10 * DigitVal(s[16]) + DigitVal(s[17]),
                     0 >>]
    ELSE [err |-> TRUE, dt |-> NoDate]

\* str(datetime): YYYY-MM-DD HH:MM:SS
DatetimeStr(dt) ==
    FourDigits(dt[1]) \o <<"-">> \o TwoDigits(dt[2]) \o <<"-">> \o TwoDigits(dt[3])
      \o <<" ">> \o TwoDigits(dt[4]) \o <<":">> \o TwoDigits(dt[5])
      \o <<":">> \o TwoDigits(dt[6])

\* helpers.datetime_to_str: YYYY-MM-DD HH:MM, the seconds dropped.
datetime_to_str(dt) == Slice(DatetimeStr(dt), 16)

\* A time argument: the text of a record, or a datetime already parsed.
TimeText(s) == [isdt |-> FALSE, s |-> s, dt |-> NoDate]

TimeDt(dt) == [isdt |-> TRUE, s |-> <<>>, dt |-> dt]

\* str(time)
StrTime(t) == IF t.isdt THEN DatetimeStr(t.dt) ELSE t.s

\* --------------------------------------------------------------- models.py

\* NearEarthObject.__init__: the approaches argument is not used; the
\* collection of linked approaches always starts empty.
NearEarthObject(designation, name, diameter, hazardous, approaches) ==
    [designation |-> designation,
     name        |-> IF Str(name) = <<>> \/ Str(name) = NoneText
                     THEN PyNone ELSE PyStr(Str(name)),
     diameter    |-> Float(diameter),
     hazardous   |-> hazardous,
     approaches  |-> <<>>]

NoApproach ==
    [designation |-> <<>>, name |-> PyNone, time |-> NoDate,
     distance |-> NaN, velocity |-> NaN, neo |-> 0]

\* CloseApproach.__init__: [err, obj]; err is the ValueError of
\* cd_to_datetime, which the constructor does not catch.  neo = 0 is None.
CloseApproach(designation, time, distance, velocity, name) ==
    LET parsed == cd_to_datetime(Slice(StrTime(time), 17))
    IN  IF parsed.err
        THEN [err |-> TRUE, obj |-> NoApproach]
        ELSE [err |-> FALSE,
              obj |-> [designation |-> designation,
                       name        |-> IF Str(name) = <<>> THEN PyNone
                                       ELSE PyStr(Str(name)),
                       time        |-> parsed.dt,
                       distance    |-> Float(distance),
                       velocity    |-> Float(velocity),
                       neo         |-> 0]]

\* -------------------------------------------------------------- extract.py

\* load_neos: one NearEarthObject per row of the CSV file; the hazard flag
\* is True for the token 'Y' and False for any other.
LoadNeo(row) ==
    NearEarthObject(row.pdes, PyStr(row.name), row.diameter, row.pha = "Y", <<>>)

\* load_approaches: one CloseApproach per item of the JSON data (no name).
LoadApproach(item) ==
    CloseApproach(item.des, TimeText(item.cd), item.dist, item.v_rel, PyNone).obj

\* ------------------------------------------------------------------ inputs

\* Rows of the CSV file: a named hazardous object, an object whose
\* designation and name differ from the first in letter case only and whose
\* diameter is unknown, and an unnamed object whose designation extends the
\* first one's.
NeoRows ==
    { [pdes |-> <<"a">>, name |-> <<"e">>,
       diameter |-> [parses |-> TRUE, v |-> 2], pha |-> "Y"],
      [pdes |-> <<"A">>, name |-> <<"E">>,
       diameter |-> [parses |-> FALSE, v |-> 7], pha |-> "N"],
      [pdes |-> <<"a", "b">>, name |-> <<>>,
       diameter |-> [parses |-> TRUE, v |-> 1], pha |-> "N"] }

\* Items of the JSON data: two approaches of the object a and one of A.
ApproachItems ==
    { [des |-> <<"a">>,
       cd |-> <<"2","0","2","0","-","J","a","n","-","0","1"," ","0","0",":","1","1">>,
       dist |-> [parses |-> TRUE, v |-> 1], v_rel |-> [parses |-> TRUE, v |-> 5]],
      [des |-> <<"a">>,
       cd |-> <<"2","0","2","0","-","F","e","b","-","0","3"," ","1","2",":","3","0">>,
       dist |-> [parses |-> TRUE, v |-> 3], v_rel |-> [parses |-> FALSE, v |-> 9]],
      [des |-> <<"A">>,
       cd |-> <<"1","9","9","9","-","D","e","c","-","3","1"," ","2","3",":","5","9">>,
       dist |-> [parses |-> TRUE, v |-> 1], v_rel |-> [parses |-> TRUE, v |-> 5]] }

\* The lists of at most n distinct members of S, in every order.
ListsOf(S, n) ==
    UNION { { f \in [1..k -> S] : \A i, j \in 1..k : i # j => f[i] # f[j] }
            : k \in 0..n }

\* The arguments the lookups are called with.
LookupDesignations == { <<>>, <<"a">>, <<"A">>, <<"a", "b">>, <<"b">> }

LookupNames ==
    { PyNone, PyStr(<<>>), PyStr(<<"e">>), PyStr(<<"E">>), PyStr(<<"e", "b">>) }

\* The filters a query is called with: "distance below 2" and "hazardous".
FilterLists ==
    { <<>>, <<"distance_lt">>, <<"hazardous">>, <<"distance_lt", "hazardous">> }

\* ------------------------------------------------------------------- state

VARIABLES
    inNeos,        \* the NearEarthObjects as loaded, before construction
    inApproaches,  \* the CloseApproaches as loaded, before construction
    neos,          \* self._neos: the same objects, as they are now
    approaches,    \* self._approaches: the same objects, as they are now
    NeoApproach,   \* self.NeoApproach: the dict, its entries in insertion order
    pc,            \* "new", "ready" (constructed) or "error" (constructor raised)
    result,        \* the outcome of the last lookup
    gens           \* the generators query has returned

vars == <<inNeos, inApproaches, neos, approaches, NeoApproach, pc, result, gens>>

NoNeo == NearEarthObject(<<>>, PyNone, NaN, FALSE, <<>>)

NoResult ==
    [op |-> "none", arg |-> PyNone, status |-> "idle", exc |-> "",
     matched |-> 0, neo |-> NoNeo]

Init ==
    /\ inNeos \in { [i \in DOMAIN rows |-> LoadNeo(rows[i])]
                    : rows \in ListsOf(NeoRows, MaxNeos) }
    /\ inApproaches \in { [i \in DOMAIN items |-> LoadApproach(items[i])]
                          : items \in ListsOf(ApproachItems, MaxApps) }
    /\ neos = inNeos
    /\ approaches = inApproaches
    /\ NeoApproach = <<>>
    /\ pc = "new"
    /\ result = NoResult
    /\ gens = <<>>

\* ---------------------------------------------------- NEODatabase.__init__

HasKey(d, k) == \E i \in DOMAIN d : d[i].key = k

KeyIndex(d, k) == CHOOSE i \in DOMAIN d : d[i].key = k

\* d[k] = v: a new key is appended, a known key keeps its place.
DictPut(d, k, v) ==
    IF HasKey(d, k) THEN [d EXCEPT ![KeyIndex(d, k)] = v] ELSE Append(d, v)

\* The entry line 51 stores for one NEO.
NeoEntry(neo) ==
    [key |-> neo.designation, pdes |-> neo.designation, name |-> neo.name,
     diameter |-> neo.diameter, hazardous |-> neo.hazardous, approaches |-> <<>>]

RECURSIVE IndexNeos(_, _, _)
\* Lines 50-51: the loop over self._neos.
IndexNeos(d, ns, i) ==
    IF i > Len(ns) THEN d
    ELSE IndexNeos(DictPut(d, ns[i].designation, NeoEntry(ns[i])), ns, i + 1)

\* A link step that passes over an approach whose designation is unknown.
LinkApproachSkip(d, approach) ==
    IF HasKey(d, approach.designation)
    THEN [err |-> FALSE,
          d   |-> [d EXCEPT ![KeyIndex(d, approach.designation)].approaches =
                      Append(@, [pdes     |-> approach.designation,
                                 time     |-> approach.time,
                                 distance |-> approach.distance,
                                 velocity |-> approach.velocity])]]
    ELSE [err |-> FALSE, d |-> d]

\* Line 53 for one approach: self.NeoApproach[approach._designation] is a
\* KeyError when no NEO has the designation.
LinkApproach(d, approach) ==
    IF HasKey(d, approach.designation)
    THEN [err |-> FALSE,
          d   |-> [d EXCEPT ![KeyIndex(d, approach.designation)].approaches =
                      Append(@, [pdes     |-> approach.designation,
                                 time     |-> approach.time,
                                 distance |-> approach.distance,
                                 velocity |-> approach.velocity])]]
    ELSE [err |-> TRUE, d |-> d]

RECURSIVE LinkApproaches(_, _, _)
\* Lines 52-53: the loop over self._approaches, ended by the first KeyError.
LinkApproaches(d, as, i) ==
    IF i > Len(as) THEN [err |-> FALSE, d |-> d]
    ELSE LET step == LinkApproach(d, as[i])
         IN  IF step.err THEN step ELSE LinkApproaches(step.d, as, i + 1)

\* NEODatabase(neos, approaches).  The supplied objects are stored as they
\* are: no statement assigns to the .approaches of a NEO or the .neo of an
\* approach.
Construct ==
    /\ pc = "new"
    /\ LET built == LinkApproaches(IndexNeos(<<>>, neos, 1), approaches, 1)
       IN  /\ NeoApproach' = built.d
           /\ pc' = IF built.err THEN "error" ELSE "ready"
    /\ UNCHANGED <<inNeos, inApproaches, neos, approaches, result, gens>>

\* ------------------------------------------------------------------ lookups

\* Lines 72-87 and 113-128: a fresh CloseApproach for every stored approach,
\* its time argument the datetime stored at construction, then a fresh
\* NearEarthObject.  [err, neo]: err is the ValueError of a CloseApproach.
Rebuild(entry) ==
    LET ca == [i \in DOMAIN entry.approaches |->
                 CloseApproach(entry.pdes, TimeDt(entry.approaches[i].time),
                               entry.approaches[i].distance,
                               entry.approaches[i].velocity, entry.name)]
    IN  IF \E i \in DOMAIN ca : ca[i].err
        THEN [err |-> TRUE, neo |-> NoNeo]
        ELSE [err |-> FALSE,
              neo |-> NearEarthObject(entry.pdes, entry.name, entry.diameter,
                                      entry.hazardous,
                                      [i \in DOMAIN ca |-> ca[i].obj])]

\* The outcome of a lookup that reached entry i of the dict.
Found(op, arg, i) ==
    LET built == Rebuild(NeoApproach[i])
    IN  [op |-> op, arg |-> arg,
         status  |-> IF built.err THEN "raised" ELSE "returned",
         exc     |-> IF built.err THEN "ValueError" ELSE "",
         matched |-> i, neo |-> built.neo]

NotFound(op, arg) ==
    [op |-> op, arg |-> arg, status |-> "none", exc |-> "",
     matched |-> 0, neo |-> NoNeo]

Raised(op, arg, exc) ==
    [op |-> op, arg |-> arg, status |-> "raised", exc |-> exc,
     matched |-> 0, neo |-> NoNeo]

\* The test of line 71.
DesignationMatches(designation, key) == designation = key

\* get_neo_by_designation(designation)
GetNeoByDesignation(designation) ==
    /\ pc = "ready"
    /\ result' =
         IF \E i \in DOMAIN NeoApproach :
                DesignationMatches(designation, NeoApproach[i].key)
         THEN Found("designation", PyStr(designation),
                    CHOOSE i \in DOMAIN NeoApproach :
                        DesignationMatches(designation, NeoApproach[i].key))
         ELSE NotFound("designation", PyStr(designation))
    /\ UNCHANGED <<inNeos, inApproaches, neos, approaches, NeoApproach, pc, gens>>

\* The test of line 112.
NameMatches(name, stored) == Lower(name) = Lower(stored)

RECURSIVE ScanNames(_, _)
\* Lines 109-129: the loop over the entries, from entry i on.  An entry
\* without a name is passed over; at the first entry with one, name.lower()
\* is an AttributeError when name is None.
ScanNames(name, i) ==
    IF i > Len(NeoApproach) THEN NotFound("name", name)
    ELSE IF NeoApproach[i].name.none \/ NeoApproach[i].name.s = <<>>
         THEN ScanNames(name, i + 1)
    ELSE IF name.none THEN Raised("name", name, "AttributeError")
    ELSE IF NameMatches(name.s, NeoApproach[i].name.s) THEN Found("name", name, i)
    ELSE ScanNames(name, i + 1)

\* get_neo_by_name(name)
GetNeoByName(name) ==
    /\ pc = "ready"
    /\ result' = ScanNames(name, 1)
    /\ UNCHANGED <<inNeos, inApproaches, neos, approaches, NeoApproach, pc, gens>>

\* ------------------------------------------------------------------- query

\* The NEO of the data set an approach belongs to: the loaded NEO whose
\* designation is the approach's.
LinkedNeo(approach) ==
    inNeos[CHOOSE i \in DOMAIN inNeos :
               inNeos[i].designation = approach.designation]

\* A filter predicate applied to an approach and its linked NEO.  A
\* comparison with NaN is false.
Holds(f, approach) ==
    IF f = "distance_lt"
    THEN approach.distance.parses /\ approach.distance.v < 2
    ELSE LinkedNeo(approach).hazardous

\* Every filter of the collection holds.
HoldsAll(filters, approach) ==
    \A k \in DOMAIN filters : Holds(filters[k], approach)

\* A generator that resumes where the generator returned before it stopped.
FreshCursorShared(gs) == IF gs = <<>> THEN 0 ELSE gs[Len(gs)].pos

\* A loop that yields only the approaches that have been linked to a NEO.
YieldsLinkedOnly(filters, approach) == approach.neo # 0

\* A loop that yields an approach as soon as one filter holds.
YieldsAnyFilter(filters, approach) ==
    filters = <<>> \/ \E k \in DOMAIN filters : Holds(filters[k], approach)

\* Where the loop of line 146 starts in a generator query has just
\* returned: before the first stored approach, whatever the generators
\* returned earlier (gs) have consumed.
FreshCursor(gs) == 0

\* Line 147: the loop yields every approach it visits; no filter is called.
Yields(filters, approach) == TRUE

\* The index of the first approach after pos the loop yields; 0 when the
\* loop runs off the end.
NextYield(filters, pos) ==
    IF \E i \in (pos + 1)..Len(approaches) : Yields(filters, approaches[i])
    THEN CHOOSE i \in (pos + 1)..Len(approaches) :
             /\ Yields(filters, approaches[i])
             /\ \A j \in (pos + 1)..(i - 1) : ~Yields(filters, approaches[j])
    ELSE 0

\* What calling query does before the first next(): a generator function
\* runs none of its body, so no approach has been visited.
VisitedAtCall(filters) == 0

\* query(filters): a new generator.
Query(filters) ==
    /\ pc = "ready"
    /\ Len(gens) < MaxGens
    /\ gens' = Append(gens, [filters |-> filters, pos |-> FreshCursor(gens),
                             visited |-> VisitedAtCall(filters),
                             out |-> <<>>, done |-> FALSE])
    /\ UNCHANGED <<inNeos, inApproaches, neos, approaches, NeoApproach, pc, result>>

\* next(g) on the g-th generator: run the loop to its next yield, or off
\* its end (StopIteration).
GenNext(g) ==
    /\ g \in DOMAIN gens
    /\ ~gens[g].done
    /\ LET i == NextYield(gens[g].filters, gens[g].pos)
       IN  gens' = [gens EXCEPT ![g] =
                      IF i = 0
                      THEN [@ EXCEPT !.done = TRUE, !.visited = Len(approaches)]
                      ELSE [@ EXCEPT !.pos = i, !.visited = i,
                                     !.out = Append(@, approaches[i])]]
    /\ UNCHANGED <<inNeos, inApproaches, neos, approaches, NeoApproach, pc, result>>

RECURSIVE Drain(_, _, _)
\* list(query(filters)) from a cursor on: every approach the generator yields.
Drain(filters, pos, out) ==
    LET i == NextYield(filters, pos)
    IN  IF i = 0 THEN out ELSE Drain(filters, i, Append(out, approaches[i]))

\* list(query(filters))
QueryAll(filters) == Drain(filters, FreshCursor(<<>>), <<>>)

\* ---------------------------------------------------------- specifications

Lookup ==
    \/ \E d \in LookupDesignations : GetNeoByDesignation(d)
    \/ \E n \in LookupNames : GetNeoByName(n)

Stream ==
    \/ \E f \in FilterLists : Query(f)
    \/ \E g \in 1..MaxGens : GenNext(g)

Next == Construct \/ Lookup \/ Stream

Spec == Init /\ [][Next]_vars

NextLookup == Construct \/ Lookup

\* Construction followed by lookups only.
SpecLookup == Init /\ [][NextLookup]_vars

NextQuery == Construct \/ Stream

\* Construction followed by queries only.
SpecQuery == Init /\ [][NextQuery]_vars

\* ------------------------------------------------------------ properties

SeqSet(s) == { s[i] : i \in DOMAIN s }

IsPrefix(s, t) == Len(s) <= Len(t) /\ s = SubSeq(t, 1, Len(s))

\* The indices of the loaded approaches that belong to a designation.
EventsOf(designation) ==
    { j \in DOMAIN inApproaches : inApproaches[j].designation = designation }

\* The k-th of them in storage order.
EventOf(designation, k) ==
    CHOOSE j \in EventsOf(designation) :
        Cardinality({ h \in EventsOf(designation) : h <= j }) = k

\* Some loaded approach names a designation no loaded NEO has.
Dangling ==
    \E j \in DOMAIN inApproaches :
        \A i \in DOMAIN inNeos :
            inNeos[i].designation # inApproaches[j].designation

\* C1: once the database is constructed, every NEO's approaches are exactly
\* the loaded approaches of its designation, each once, and every approach's
\* neo is the NEO of its designation, never None.
C1_Linked ==
    pc = "ready" =>
        /\ \A i \in DOMAIN neos :
              /\ SeqSet(neos[i].approaches) = EventsOf(neos[i].designation)
              /\ Len(neos[i].approaches) = Cardinality(EventsOf(neos[i].designation))
        /\ \A j \in DOMAIN approaches :
              /\ approaches[j].neo \in DOMAIN neos
              /\ neos[approaches[j].neo].designation = approaches[j].designation

\* C2: get_neo_by_designation(d) returns a NEO, the one designated d, if and
\* only if some loaded NEO has exactly the designation d; for any other d it
\* returns None; it never raises.
C2_DesignationLookup ==
    result.op = "designation" =>
        IF \E i \in DOMAIN inNeos : inNeos[i].designation = result.arg.s
        THEN result.status = "returned" /\ result.neo.designation = result.arg.s
        ELSE result.status = "none"

\* C3: get_neo_by_name of the empty string, and of None, returns None and
\* does not raise, whatever the data set.
C3_EmptyNameNotFound ==
    (result.op = "name" /\ (result.arg.none \/ result.arg.s = <<>>))
        => result.status = "none"

\* C4: query(F) produces an approach if and only if every filter of F holds
\* for it and its linked NEO: nothing produced fails a filter, and a
\* generator run to its end has produced every approach that passes all.
C4_QueryFilters ==
    \A g \in DOMAIN gens :
        /\ \A k \in DOMAIN gens[g].out : HoldsAll(gens[g].filters, gens[g].out[k])
        /\ gens[g].done =>
              \A j \in DOMAIN approaches :
                  HoldsAll(gens[g].filters, approaches[j])
                      => approaches[j] \in SeqSet(gens[g].out)

\* C5: query() without filters produces the loaded approaches, unchanged and
\* in storage order: what it has produced so far is a prefix of them, and run
\* to its end it has produced all of them, be the data set empty or not.
C5_NoFilterAll ==
    \A g \in DOMAIN gens :
        gens[g].filters = <<>> =>
            /\ IsPrefix(gens[g].out, inApproaches)
            /\ gens[g].done => gens[g].out = inApproaches

\* C5 witness: a query without filters run to its end over two approaches or more.
C5_Witness ==
    \E g \in DOMAIN gens :
        gens[g].filters = <<>> /\ gens[g].done /\ Len(gens[g].out) >= 2

\* C6: the approaches query([f1, f2]) produces are those both query([f1])
\* and query([f2]) produce, for a generator run to its end and for every
\* pair of the filters.
C6_Conjunction ==
    pc = "ready" =>
        /\ \A g \in DOMAIN gens :
              (gens[g].done /\ Len(gens[g].filters) = 2) =>
                  SeqSet(gens[g].out) =
                      SeqSet(QueryAll(<<gens[g].filters[1]>>))
                          \cap SeqSet(QueryAll(<<gens[g].filters[2]>>))
        /\ \A f1, f2 \in {"distance_lt", "hazardous"} :
              SeqSet(QueryAll(<<f1, f2>>)) =
                  SeqSet(QueryAll(<<f1>>)) \cap SeqSet(QueryAll(<<f2>>))

\* C6 witness: a query with two filters run to its end, having produced
\* something.
C6_Witness ==
    \E g \in DOMAIN gens :
        gens[g].done /\ Len(gens[g].filters) = 2 /\ Len(gens[g].out) >= 1

\* The first loaded NEO that has exactly this name, 0 if none has.
FirstNamed(s) ==
    IF \E i \in DOMAIN inNeos : inNeos[i].name = PyStr(s)
    THEN CHOOSE i \in DOMAIN inNeos :
             /\ inNeos[i].name = PyStr(s)
             /\ \A h \in 1..(i - 1) : inNeos[h].name # PyStr(s)
    ELSE 0

\* C7: get_neo_by_name(n), n not empty, matches exactly and with letter case:
\* the NEO it finds is the first whose name is n character for character,
\* and it returns None when no NEO has exactly that name.
C7_NameExact ==
    (result.op = "name" /\ ~result.arg.none /\ result.arg.s # <<>>) =>
        IF FirstNamed(result.arg.s) # 0
        THEN /\ result.matched # 0
             /\ NeoApproach[result.matched].key
                    = inNeos[FirstNamed(result.arg.s)].designation
        ELSE result.status = "none"

\* C8: a lookup that finds a match returns the NEO with its approaches: one
\* for every loaded approach of its designation, with the same time,
\* distance and velocity.
C8_FullCollection ==
    result.matched # 0 =>
        /\ result.status = "returned"
        /\ Len(result.neo.approaches)
               = Cardinality(EventsOf(result.neo.designation))
        /\ \A k \in DOMAIN result.neo.approaches :
              LET e == inApproaches[EventOf(result.neo.designation, k)]
              IN  /\ result.neo.approaches[k].time = e.time
                  /\ result.neo.approaches[k].distance = e.distance
                  /\ result.neo.approaches[k].velocity = e.velocity

\* C9: with an approach whose designation no NEO has, construction ends in
\* an error: no database is ever ready, so no lookup and no query has run.
C9_DanglingRejected ==
    Dangling =>
        /\ pc # "ready"
        /\ result = NoResult
        /\ gens = <<>>

\* C9 witness: the constructor has raised on a dangling approach.
C9_Witness == pc = "error" /\ Dangling

\* C10: a generator has visited nothing beyond the last approach it has
\* yielded (all of them once it has run off the end), and every call of
\* query starts over: of two generators with the same filters, whatever
\* each has consumed, one has produced a prefix of what the other has.
C10_LazyFresh ==
    \A g \in DOMAIN gens :
        /\ gens[g].visited <= Len(approaches)
        /\ ~gens[g].done =>
              IF gens[g].out = <<>> THEN gens[g].visited = 0
              ELSE approaches[gens[g].visited] = gens[g].out[Len(gens[g].out)]
        /\ \A h \in DOMAIN gens :
              gens[h].filters = gens[g].filters =>
                  /\ IsPrefix(gens[g].out, gens[h].out)
                        \/ IsPrefix(gens[h].out, gens[g].out)
                  /\ (gens[g].done /\ gens[h].done) => gens[g].out = gens[h].out

\* C10 witness: a second query with the same filters has produced an
\* approach after the first one had produced some and stopped short of
\* the end.
C10_Witness ==
    \E g, h \in DOMAIN gens :
        /\ g < h
        /\ gens[g].filters = gens[h].filters
        /\ ~gens[g].done /\ Len(gens[g].out) >= 1
        /\ Len(gens[g].out) < Len(approaches)
        /\ Len(gens[h].out) >= 1

====
